---- MODULE Spec2Model ----
(***************************************************************************)
(* CMIC / SL reconciliation (src/CMIC_SL_comparison.py): the two           *)
(* normalizers clean_cmic and clean_sl, the join key built by              *)
(* combine_cols, and the reconciler compare_dfs.                           *)
(*                                                                         *)
(* A table is a sequence of rows; a row is a record of cells.  A cell is a *)
(* tagged tuple, so that values of different Python types can be compared: *)
(*   <<"null">>        NaN / NaT / None (a missing value)                  *)
(*   <<"num", h>>      a number, h its value in hundredths                 *)
(*   <<"str", s>>      a string whose characters are never inspected       *)
(*   <<"txt", cs>>     a string as the sequence cs of its characters       *)
(*   <<"date", ymd>>   a timestamp <<year, month, day>>                    *)
(***************************************************************************)
EXTENDS Integers, Sequences, FiniteSets, TLC

Null == <<"null">>
Num(i) == <<"num", i * 100>>
Hun(h) == <<"num", h>>
Str(s) == <<"str", s>>
Txt(cs) == <<"txt", cs>>
Date(ymd) == <<"date", ymd>>

IsNull(c) == c[1] = "null"
IsNum(c) == c[1] = "num"
IsTxt(c) == c[1] = "txt"

(* The outcome of an expression that raises instead of returning a value. *)
Raise == <<"raise">>
IsRaise(c) == c[1] = "raise"

(***************************************************************************)
(* Python string primitives on character sequences.                        *)
(***************************************************************************)
Digits == <<"0", "1", "2", "3", "4", "5", "6", "7", "8", "9">>
IsDigit(ch) == \E i \in 1..10 : Digits[i] = ch
DigitVal(ch) == (CHOOSE i \in 1..10 : Digits[i] = ch) - 1

UpperCase == <<"A", "B", "C", "D", "E", "F", "G", "H", "I", "J", "K", "L", "M",
               "N", "O", "P", "Q", "R", "S", "T", "U", "V", "W", "X", "Y", "Z">>
LowerCase == <<"a", "b", "c", "d", "e", "f", "g", "h", "i", "j", "k", "l", "m",
               "n", "o", "p", "q", "r", "s", "t", "u", "v", "w", "x", "y", "z">>

(* str.lower() *)
LowerChar(ch) ==
    IF \E i \in 1..26 : UpperCase[i] = ch
    THEN LowerCase[CHOOSE i \in 1..26 : UpperCase[i] = ch]
    ELSE ch
Lower(cs) == [i \in 1..Len(cs) |-> LowerChar(cs[i])]

(* str.strip(chars): drop the leading and trailing characters that are in set. *)
StripSet(cs, set) ==
    IF \A i \in 1..Len(cs) : cs[i] \in set
    THEN << >>
    ELSE LET lo == CHOOSE i \in 1..Len(cs) :
                       cs[i] \notin set /\ \A j \in 1..(i - 1) : cs[j] \in set
             hi == CHOOSE i \in 1..Len(cs) :
                       cs[i] \notin set /\ \A j \in (i + 1)..Len(cs) : cs[j] \in set
         IN  SubSeq(cs, lo, hi)
Strip(cs) == StripSet(cs, {" "})

(* x[0:n] *)
Prefix(cs, n) == SubSeq(cs, 1, IF Len(cs) < n THEN Len(cs) ELSE n)

(* str.split(sep): the pieces between the non-overlapping occurrences of sep, *)
(* scanned from the left.                                                    *)
OccursAt(cs, sep, i) ==
    /\ i + Len(sep) - 1 <= Len(cs)
    /\ SubSeq(cs, i, i + Len(sep) - 1) = sep
RECURSIVE Split(_, _)
Split(cs, sep) ==
    IF \E i \in 1..Len(cs) : OccursAt(cs, sep, i)
    THEN LET i == CHOOSE k \in 1..Len(cs) :
                      OccursAt(cs, sep, k) /\ \A j \in 1..(k - 1) : ~OccursAt(cs, sep, j)
         IN  <<SubSeq(cs, 1, i - 1)>> \o Split(SubSeq(cs, i + Len(sep), Len(cs)), sep)
    ELSE <<cs>>

(* parts[k] with a zero-based k >= 0, parts[-1] for k = -1.  parts[k] raises *)
(* IndexError when HasItem is false.                                         *)
HasItem(parts, k) == k = -1 \/ k + 1 <= Len(parts)
Item(parts, k) == IF k = -1 THEN parts[Len(parts)] ELSE parts[k + 1]

(* The Python string of a character sequence. *)
RECURSIVE Join(_)
Join(cs) == IF cs = << >> THEN "" ELSE cs[1] \o Join(Tail(cs))

(* str(n) of an integer n. *)
RECURSIVE NatToStr(_)
NatToStr(n) == IF n < 10 THEN Digits[n + 1] ELSE NatToStr(n \div 10) \o Digits[(n % 10) + 1]
IntToStr(n) == IF n < 0 THEN "-" \o NatToStr(0 - n) ELSE NatToStr(n)

(* Variant: the number is rounded to the nearest integer, halves upwards. *)
TruncHunRounded(h) == (h + 50) \div 100

(* int(x) of a number given in hundredths: the fraction is dropped, towards 0. *)
TruncHun(h) == IF h >= 0 THEN h \div 100 ELSE 0 - ((0 - h) \div 100)

(***************************************************************************)
(* float(s): digits with an optional decimal point and at most two         *)
(* fractional digits give the value in hundredths; anything else raises    *)
(* ValueError.                                                             *)
(***************************************************************************)
RECURSIVE DigitsVal(_)
DigitsVal(cs) == IF cs = << >> THEN 0 ELSE DigitsVal(SubSeq(cs, 1, Len(cs) - 1)) * 10 + DigitVal(cs[Len(cs)])
AllDigits(cs) == \A i \in 1..Len(cs) : IsDigit(cs[i])
ParseFloat(cs) ==
    LET parts == Split(cs, <<".">>)
    IN  IF Len(parts) = 1 /\ cs # << >> /\ AllDigits(cs)
        THEN Hun(DigitsVal(cs) * 100)
        ELSE IF /\ Len(parts) = 2 /\ Len(parts[1]) + Len(parts[2]) > 0
                /\ AllDigits(parts[1]) /\ AllDigits(parts[2]) /\ Len(parts[2]) <= 2
        THEN Hun(DigitsVal(parts[1]) * 100
                 + (IF Len(parts[2]) = 0 THEN 0
                    ELSE IF Len(parts[2]) = 1 THEN DigitsVal(parts[2]) * 10
                    ELSE DigitsVal(parts[2])))
        ELSE Raise

(* Series.str.replace(',', '') on one string *)
RemoveCommas(cs) == SelectSeq(cs, LAMBDA ch : ch # ",")


(***************************************************************************)
(* pandas conversions of one cell.                                         *)
(***************************************************************************)
(* pd.to_numeric(errors="coerce"): a numeric string becomes its number, any *)
(* other string becomes NaN.                                                *)
to_numeric(c) ==
    IF IsTxt(c)
    THEN (IF IsRaise(ParseFloat(c[2])) THEN Null ELSE ParseFloat(c[2]))
    ELSE c

(* pd.to_datetime of a month/day/year text; a text that is no date raises. *)
IsLeap(y) == (y % 4 = 0 /\ y % 100 # 0) \/ y % 400 = 0
DaysIn(y, m) ==
    IF m = 2 THEN (IF IsLeap(y) THEN 29 ELSE 28)
    ELSE IF m \in {4, 6, 9, 11} THEN 30 ELSE 31
to_datetime(c) ==
    IF IsNull(c) THEN Null
    ELSE LET p == Split(c[2], <<"/">>)
         IN  IF /\ Len(p) = 3
                /\ \A i \in 1..3 : p[i] # << >> /\ AllDigits(p[i])
                /\ DigitsVal(p[1]) \in 1..12
                /\ DigitsVal(p[2]) \in 1..DaysIn(DigitsVal(p[3]), DigitsVal(p[1]))
             THEN Date(<<DigitsVal(p[3]), DigitsVal(p[1]), DigitsVal(p[2])>>)
             ELSE Raise

(* Series.astype(str) of a text cell or NaN *)
astype_str(c) == IF IsNull(c) THEN <<"n", "a", "n">> ELSE c[2]

(* val.astype(int).astype(str); NaN cannot be converted to integer. *)
convert_to_str(c) == IF IsNull(c) THEN Raise ELSE Str(IntToStr(TruncHun(c[2])))

(* Series + Series on strings: NaN on either side gives NaN. *)
StrAdd(a, b) == IF IsNull(a) \/ IsNull(b) THEN Null ELSE Str(a[2] \o b[2])

RECURSIVE combine_cols(_, _)
combine_cols(row, cols) ==
    IF Len(cols) = 1
    THEN row[cols[1]]
    ELSE StrAdd(StrAdd(row[cols[1]], Str("_")), combine_cols(row, Tail(cols)))

cols_to_combine == <<"job_no", "subcontract_no", "item_no", "phase_no", "category", "cont_or_co">>

(***************************************************************************)
(* clean_cmic                                                              *)
(***************************************************************************)
ItemNameLen == 30
VendorNameLen == 15
PhaseLen == 6

(* Variant: only a positive code is a change order. *)
cmic_cont_or_co_positive(val) == IF IsNum(val) /\ val[2] > 0 THEN Str("CO") ELSE Str("Contract")

cmic_cont_or_co(val) == IF IsNum(val) /\ val[2] = 0 THEN Str("Contract") ELSE Str("CO")

(* x[0:n].strip().lower() after astype(str) *)
CleanName(c, n) == Str(Join(Lower(Strip(Prefix(astype_str(c), n)))))

(* Variant: every string of at most six characters is padded. *)
PadPhaseUpTo(c) ==
    LET x == IF IsNull(c) THEN "nan" ELSE c[2]
    IN  Str(IF Len(x) <= PhaseLen THEN x \o "0" ELSE x)

PadPhase(c) ==
    LET x == IF IsNull(c) THEN "nan" ELSE c[2]
    IN  Str(IF Len(x) = PhaseLen THEN x \o "0" ELSE x)

(* category / 100 *)
Div100(c) == IF IsNull(c) THEN Null ELSE Hun(c[2] \div 100)

(* The statements of clean_cmic that raise on some row of the kept frame. *)
CmicRowRaises(r) ==
    \/ IsRaise(to_datetime(r.co_date))
    \/ \E col \in {"job_no", "vendor_no", "item_no", "job_cost_no", "category"} : IsNull(r[col])

CmicRow(r) ==
    LET c1 == [r EXCEPT !.co_code = to_numeric(r.co_code)]
        c2 == [f \in (DOMAIN c1) \cup {"cont_or_co"} |->
                  IF f = "cont_or_co" THEN cmic_cont_or_co(c1.co_code) ELSE c1[f]]
        c3 == [c2 EXCEPT !.category = convert_to_str(Div100(c2.category)),
                         !.co_date = to_datetime(c2.co_date),
                         !.item_name = CleanName(c2.item_name, ItemNameLen),
                         !.vendor_name = CleanName(c2.vendor_name, VendorNameLen),
                         !.phase_no = PadPhase(c2.phase_no),
                         !.job_no = convert_to_str(c2.job_no),
                         !.vendor_no = convert_to_str(c2.vendor_no),
                         !.item_no = convert_to_str(c2.item_no),
                         !.job_cost_no = convert_to_str(c2.job_cost_no)]
    IN  [f \in (DOMAIN c3) \cup {"ID"} |->
            IF f = "ID" THEN combine_cols(c3, cols_to_combine) ELSE c3[f]]

(* Variant: dropna on job_no and co_date together. *)
CmicKeptDropna(df) == SelectSeq(df, LAMBDA r : ~IsNull(r.job_no) /\ ~IsNull(r.co_date))

(* df[df['job_no'].notnull()] *)
CmicKept(df) == SelectSeq(df, LAMBDA r : ~IsNull(r.job_no))

clean_cmic_raises(df) ==
    LET kept == CmicKept(df)
    IN  \E i \in 1..Len(kept) : CmicRowRaises(kept[i])

clean_cmic(df) ==
    LET kept == CmicKept(df)
    IN  [i \in 1..Len(kept) |-> CmicRow(kept[i])]

(***************************************************************************)
(* clean_sl.  The SL table has no header: c20 .. c129 are its positional   *)
(* columns 20 .. 129.  Their cells are strings or NaN: the .str accessor   *)
(* of lines 114-123 only works on columns that read_csv left as text.      *)
(***************************************************************************)
(* Variant: two missing amounts compare equal. *)
sl_cont_or_co_null_equal(val1, val2) ==
    IF val1 = val2 THEN Str("Contract") ELSE Str("CO")

sl_cont_or_co(val1, val2) ==
    IF ~IsNull(val1) /\ ~IsNull(val2) /\ val1 = val2 THEN Str("Contract") ELSE Str("CO")

(* Variant: the two column sets swapped. *)
gather_co_rel_data_swapped(cont_type, cont_val, co_val) ==
    IF cont_type = Str("CO") THEN cont_val ELSE co_val

gather_co_rel_data(cont_type, cont_val, co_val) ==
    IF cont_type = Str("CO") THEN co_val ELSE cont_val

(* Lines 93-95: the tag and the parsed change-order date. *)
SlTagRow(r) ==
    [f \in (DOMAIN r) \cup {"cont_or_co", "co_date"} |->
        IF f = "cont_or_co" THEN sl_cont_or_co(r.c47, r.c48)
        ELSE IF f = "co_date" THEN to_datetime(r.c102)
        ELSE r[f]]
SlTagged(df) == [i \in 1..Len(df) |-> SlTagRow(df[i])]
SlDateRaises(df) == \E i \in 1..Len(df) : IsRaise(to_datetime(df[i].c102))

(* Line 96: drop_duplicates keeps the first row of each key; NaN equals NaN. *)
DupKeyNoDate(r) == <<r.c41, r.c42, r.cont_or_co>>
DupKey(r) == <<r.c41, r.c42, r.cont_or_co, r.co_date>>
RECURSIVE DropFrom(_, _)
DropFrom(df, i) ==
    IF i > Len(df) THEN << >>
    ELSE (IF \E j \in 1..(i - 1) : DupKey(df[j]) = DupKey(df[i]) THEN << >> ELSE <<df[i]>>)
         \o DropFrom(df, i + 1)
drop_duplicates(df) == DropFrom(df, 1)

(* sort_index: rows in the order of their index label. *)
RECURSIVE InsertByIdx(_, _)
InsertByIdx(sorted, r) ==
    IF sorted = << >> THEN <<r>>
    ELSE IF sorted[Len(sorted)].idx <= r.idx THEN Append(sorted, r)
    ELSE Append(InsertByIdx(SubSeq(sorted, 1, Len(sorted) - 1), r), sorted[Len(sorted)])
RECURSIVE sort_index(_)
sort_index(df) ==
    IF df = << >> THEN << >>
    ELSE InsertByIdx(sort_index(SubSeq(df, 1, Len(df) - 1)), df[Len(df)])

(* Line 97: the Contract rows, with the rows that have a date appended. *)
RowFilter(df) ==
    sort_index(SelectSeq(df, LAMBDA r : r.cont_or_co = Str("Contract"))
               \o SelectSeq(df, LAMBDA r : ~IsNull(r.co_date)))

SlDedup(df) == drop_duplicates(SlTagged(df))
SlRetained(df) == RowFilter(SlDedup(df))

(* Lines 99-110: the fields cut out of the descriptive text columns. *)
Sp == <<" ">>
Sp2 == <<" ", " ">>
ColonSp == <<":", " ">>
DashSp == <<"-", " ">>
PhaseSep == <<"P", "h", "a", "s", "e", ":", " ">>

sl_job_no(x) == Strip(Item(Split(Item(Split(x, Sp), 4), <<"-">>), 0))
sl_job_name(x) == Strip(Item(Split(x, DashSp), 1))
sl_subcontract_no(x) == Item(Split(x, Sp), 3)
sl_vendor_no(x) == Strip(Item(Split(Item(Split(x, ColonSp), 2), Sp), 2))
sl_vendor_name(x) == Strip(Item(Split(Item(Split(x, ColonSp), 2), Sp2), -1))
sl_item_no(x) == Strip(Item(Split(x, ColonSp), -1))
sl_item_name(x) == Strip(Item(Split(x, Sp2), 0))
sl_category(x) == Strip(Item(Split(x, ColonSp), -1))
sl_phase_no(x) == StripSet(Strip(Item(Split(Item(Split(x, PhaseSep), -1), Sp2), 0)), {"."})
sl_job_cost_no(x) == Strip(Item(Split(Item(Split(x, DashSp), 0), Sp), -1))

(* A NaN cell has no split (AttributeError); a missing token is an IndexError. *)
SlParseRaises(r) ==
    \/ IsNull(r.c26) \/ IsNull(r.c20) \/ IsNull(r.c41) \/ IsNull(r.c42)
    \/ ~HasItem(Split(r.c26[2], Sp), 4)
    \/ ~HasItem(Split(r.c26[2], DashSp), 1)
    \/ ~HasItem(Split(r.c20[2], Sp), 3)
    \/ ~HasItem(Split(r.c20[2], ColonSp), 2)
    \/ ~HasItem(Split(Item(Split(r.c20[2], ColonSp), 2), Sp), 2)

(* Lines 113-123: the amounts.  fillna, str.replace(',', ''), astype(float). *)
fillna(c, dflt) == IF IsNull(c) THEN Txt(dflt) ELSE c
ToFloat(c) == IF IsNull(c) THEN Null ELSE ParseFloat(RemoveCommas(c[2]))

sl_qty(r) == ToFloat(fillna(gather_co_rel_data(r.cont_or_co, r.c57, r.c106), <<"0">>))
sl_qty_type(r) ==
    LET c == gather_co_rel_data(r.cont_or_co, r.c56, r.c105)
    IN  IF IsNull(c) THEN Str("LS") ELSE Str(Join(c[2]))
sl_dollar_amount(r) == ToFloat(gather_co_rel_data(r.cont_or_co, r.c47, r.c108))

SlAmountRaises(r) ==
    \/ IsRaise(sl_qty(r))
    \/ IsRaise(sl_dollar_amount(r))
    \/ IsRaise(ToFloat(r.c128))
    \/ IsRaise(ToFloat(r.c129))

(* Series.str of a Series built from NaN alone (dtype float64) raises. *)
StrAccessorRaises(df) ==
    /\ df # << >>
    /\ \A i \in 1..Len(df) :
          IsNull(gather_co_rel_data(df[i].cont_or_co, df[i].c47, df[i].c108))

SlFields == {"job_no", "job_name", "subcontract_no", "vendor_no", "vendor_name", "item_no",
             "item_name", "category", "phase_no", "job_cost_no", "co_code", "qty", "qty_type",
             "dollar_amount", "cont_total", "vendor_total"}

SlRow(r) ==
    LET c1 == [f \in (DOMAIN r) \cup SlFields |->
                  IF f = "job_no" THEN Str(Join(sl_job_no(r.c26[2])))
                  ELSE IF f = "job_name" THEN Str(Join(sl_job_name(r.c26[2])))
                  ELSE IF f = "subcontract_no" THEN Str(Join(sl_subcontract_no(r.c20[2])))
                  ELSE IF f = "vendor_no" THEN Str(Join(sl_vendor_no(r.c20[2])))
                  ELSE IF f = "vendor_name"
                       THEN CleanName(Txt(sl_vendor_name(r.c20[2])), VendorNameLen)
                  ELSE IF f = "item_no" THEN Str(Join(sl_item_no(r.c41[2])))
                  ELSE IF f = "item_name"
                       THEN CleanName(Txt(sl_item_name(r.c42[2])), ItemNameLen)
                  ELSE IF f = "category" THEN Str(Join(sl_category(r.c42[2])))
                  ELSE IF f = "phase_no" THEN Str(Join(sl_phase_no(r.c42[2])))
                  ELSE IF f = "job_cost_no" THEN Str(Join(sl_job_cost_no(r.c42[2])))
                  ELSE IF f = "co_code" THEN Null
                  ELSE IF f = "qty" THEN sl_qty(r)
                  ELSE IF f = "qty_type" THEN sl_qty_type(r)
                  ELSE IF f = "dollar_amount" THEN sl_dollar_amount(r)
                  ELSE IF f = "cont_total" THEN ToFloat(r.c128)
                  ELSE IF f = "vendor_total" THEN ToFloat(r.c129)
                  ELSE r[f]]
    IN  [f \in (DOMAIN c1) \cup {"ID"} |->
            IF f = "ID" THEN combine_cols(c1, cols_to_combine) ELSE c1[f]]

SlLaterRaises(retained) ==
    \/ \E i \in 1..Len(retained) : SlParseRaises(retained[i]) \/ SlAmountRaises(retained[i])
    \/ StrAccessorRaises(retained)

clean_sl_raises(df) == SlDateRaises(df) \/ SlLaterRaises(SlRetained(df))

SlRowsOf(retained) == [i \in 1..Len(retained) |-> SlRow(retained[i])]
clean_sl(df) == SlRowsOf(SlRetained(df))

(***************************************************************************)
(* compare_dfs                                                             *)
(***************************************************************************)
cols_to_keep == <<"job_no", "job_name", "subcontract_no", "vendor_no", "vendor_name",
                  "item_no", "item_name", "category", "phase_no", "job_cost_no",
                  "cont_or_co", "co_date", "qty", "qty_type", "dollar_amount",
                  "cont_total", "vendor_total", "ID">>
cols_to_compare == <<"job_no", "job_name", "subcontract_no", "vendor_name",
                     "item_no", "item_name", "category", "phase_no", "job_cost_no",
                     "cont_or_co", "co_date", "qty", "qty_type", "dollar_amount",
                     "cont_total", "vendor_total">>

Range(seq) == {seq[i] : i \in 1..Len(seq)}
Suffixed == Range(cols_to_keep) \ {"ID"}
Bool(b) == <<"bool", b>>

(* A row of one side of the join, restricted to cols_to_keep; a side with no *)
(* matching row contributes NaN in every column.                             *)
KeepCols(r) == [f \in Range(cols_to_keep) |-> r[f]]
(* Variant: the absent side filled with empty strings. *)
NoRowEmptyStrings == [f \in Range(cols_to_keep) |-> Str("")]
NoRow == [f \in Range(cols_to_keep) |-> Null]

(* One row of the merged frame: the key, and each other column of either side *)
(* under its suffix.                                                          *)
CmicCol == [f \in Suffixed |-> f \o "_cmic"]
SlCol == [f \in Suffixed |-> f \o "_sl"]
ZCol == [f \in Range(cols_to_compare) |-> f \o "_zcomparison"]
CmicCols == {CmicCol[f] : f \in Suffixed}
SlCols == {SlCol[f] : f \in Suffixed}
ZCols == {ZCol[f] : f \in Range(cols_to_compare)}
MergedCols == {"ID"} \cup CmicCols \cup SlCols
(* The column a suffixed or comparison column is made from. *)
FieldOf ==
    [c \in CmicCols \cup SlCols \cup ZCols |->
        CHOOSE f \in Suffixed :
            c = CmicCol[f] \/ c = SlCol[f] \/ (f \in DOMAIN ZCol /\ c = ZCol[f])]
MergeRow(key, l, r) ==
    [c \in MergedCols |->
        IF c = "ID" THEN key
        ELSE IF c \in CmicCols THEN l[FieldOf[c]]
        ELSE r[FieldOf[c]]]

(* pd.merge(how='outer', on='ID'): every pair of rows with the same key (NaN *)
(* keys match each other), then the rows of either side that found no mate.  *)
(* Rows are listed left rows first; no property below reads the row order.   *)
RECURSIVE FlattenSeq(_)
FlattenSeq(ss) == IF ss = << >> THEN << >> ELSE ss[1] \o FlattenSeq(Tail(ss))
Matches(row, other) == SelectSeq(other, LAMBDA o : o.ID = row.ID)
merge_outer(left, right) ==
    FlattenSeq([i \in 1..Len(left) |->
        LET mates == Matches(left[i], right)
        IN  IF mates = << >>
            THEN <<MergeRow(left[i].ID, left[i], NoRow)>>
            ELSE [j \in 1..Len(mates) |-> MergeRow(left[i].ID, left[i], mates[j])]])
    \o FlattenSeq([j \in 1..Len(right) |->
        IF Matches(right[j], left) = << >>
        THEN <<MergeRow(right[j].ID, NoRow, right[j])>>
        ELSE << >>])

(* Variant: two missing values compare equal. *)
ElemEqNullEqual(a, b) == a[1] = b[1] /\ a = b

(* Series == Series, element by element: a missing value equals nothing. *)
ElemEq(a, b) == ~IsNull(a) /\ ~IsNull(b) /\ a[1] = b[1] /\ a = b

compare_cols(row, cols) ==
    [c \in (DOMAIN row) \cup {ZCol[f] : f \in Range(cols)} |->
        IF c \in ZCols
        THEN Bool(ElemEq(row[CmicCol[FieldOf[c]]], row[SlCol[FieldOf[c]]]))
        ELSE row[c]]

(* Variant: one "Contract" side is enough to force the flag. *)
ForceContractDateEither(row) ==
    IF row["cont_or_co_sl"] = Str("Contract") \/ row["cont_or_co_cmic"] = Str("Contract")
    THEN [row EXCEPT !["co_date_zcomparison"] = Bool(TRUE)]
    ELSE row

(* Line 159 *)
ForceContractDate(row) ==
    IF row["cont_or_co_sl"] = Str("Contract") /\ row["cont_or_co_cmic"] = Str("Contract")
    THEN [row EXCEPT !["co_date_zcomparison"] = Bool(TRUE)]
    ELSE row

compare_dfs(cmic, sl) ==
    LET combined == merge_outer([i \in 1..Len(cmic) |-> KeepCols(cmic[i])],
                                [i \in 1..Len(sl) |-> KeepCols(sl[i])])
    IN  [i \in 1..Len(combined) |-> ForceContractDate(compare_cols(combined[i], cols_to_compare))]

(***************************************************************************)
(* Lines 148-162: the columns of the comparison table and their order.     *)
(* The column names are strings; NameChars spells each of them so that the *)
(* order of sorted(), which compares strings code point by code point, can *)
(* be computed.                                                            *)
(***************************************************************************)
NameChars ==
    "job_no" :> <<"j", "o", "b", "_", "n", "o">> @@
    "job_name" :> <<"j", "o", "b", "_", "n", "a", "m", "e">> @@
    "subcontract_no" :> <<"s", "u", "b", "c", "o", "n", "t", "r", "a", "c", "t", "_", "n", "o">> @@
    "vendor_no" :> <<"v", "e", "n", "d", "o", "r", "_", "n", "o">> @@
    "vendor_name" :> <<"v", "e", "n", "d", "o", "r", "_", "n", "a", "m", "e">> @@
    "item_no" :> <<"i", "t", "e", "m", "_", "n", "o">> @@
    "item_name" :> <<"i", "t", "e", "m", "_", "n", "a", "m", "e">> @@
    "category" :> <<"c", "a", "t", "e", "g", "o", "r", "y">> @@
    "phase_no" :> <<"p", "h", "a", "s", "e", "_", "n", "o">> @@
    "job_cost_no" :> <<"j", "o", "b", "_", "c", "o", "s", "t", "_", "n", "o">> @@
    "cont_or_co" :> <<"c", "o", "n", "t", "_", "o", "r", "_", "c", "o">> @@
    "co_date" :> <<"c", "o", "_", "d", "a", "t", "e">> @@
    "qty" :> <<"q", "t", "y">> @@
    "qty_type" :> <<"q", "t", "y", "_", "t", "y", "p", "e">> @@
    "dollar_amount" :> <<"d", "o", "l", "l", "a", "r", "_", "a", "m", "o", "u", "n", "t">> @@
    "cont_total" :> <<"c", "o", "n", "t", "_", "t", "o", "t", "a", "l">> @@
    "vendor_total" :> <<"v", "e", "n", "d", "o", "r", "_", "t", "o", "t", "a", "l">> @@
    "ID" :> <<"I", "D">>
SuffixCmic == <<"_", "c", "m", "i", "c">>
SuffixSl == <<"_", "s", "l">>
SuffixZ == <<"_", "z", "c", "o", "m", "p", "a", "r", "i", "s", "o", "n">>
ColChars ==
    [c \in MergedCols \cup ZCols |->
        IF c = "ID" THEN NameChars[c]
        ELSE IF c \in CmicCols THEN NameChars[FieldOf[c]] \o SuffixCmic
        ELSE IF c \in SlCols THEN NameChars[FieldOf[c]] \o SuffixSl
        ELSE NameChars[FieldOf[c]] \o SuffixZ]

(* ord(ch) for the characters of identifiers. *)
ord(ch) ==
    IF IsDigit(ch) THEN 48 + DigitVal(ch)
    ELSE IF ch \in Range(UpperCase) THEN 64 + CHOOSE i \in 1..26 : UpperCase[i] = ch
    ELSE IF ch = "_" THEN 95
    ELSE 96 + CHOOSE i \in 1..26 : LowerCase[i] = ch

(* a < b on Python strings *)
StrLess(a, b) ==
    \E k \in 1..Len(b) :
        /\ k - 1 <= Len(a)
        /\ SubSeq(a, 1, k - 1) = SubSeq(b, 1, k - 1)
        /\ (k > Len(a) \/ ord(a[k]) < ord(b[k]))

(* sorted(names, key=...): stable insertion by the key's order. *)
RECURSIVE InsertByKey(_, _, _)
InsertByKey(done, c, key) ==
    IF done = << >> THEN <<c>>
    ELSE IF StrLess(key[c], key[done[Len(done)]])
    THEN Append(InsertByKey(SubSeq(done, 1, Len(done) - 1), c, key), done[Len(done)])
    ELSE Append(done, c)
RECURSIVE SortByKey(_, _)
SortByKey(cols, key) ==
    IF cols = << >> THEN << >>
    ELSE InsertByKey(SortByKey(SubSeq(cols, 1, Len(cols) - 1), key), cols[Len(cols)], key)

(* Variant: sorted(columns, key=str.lower) *)
sorted_ignoring_case(cols) == SortByKey(cols, [c \in Range(cols) |-> Lower(ColChars[c])])

(* sorted(columns) *)
sorted(cols) == SortByKey(cols, [c \in Range(cols) |-> ColChars[c]])

(* Line 148: the left frame's columns with the key in its place, then the *)
(* other columns of the right frame.                                      *)
merged_columns ==
    [i \in 1..Len(cols_to_keep) |->
        IF cols_to_keep[i] = "ID" THEN "ID" ELSE CmicCol[cols_to_keep[i]]]
    \o [i \in 1..(Len(cols_to_keep) - 1) |-> SlCol[cols_to_keep[i]]]
(* Line 137: each comparison column is appended. *)
compared_columns == merged_columns \o [i \in 1..Len(cols_to_compare) |-> ZCol[cols_to_compare[i]]]
(* Line 162 *)
reindexed_columns == sorted(compared_columns)

(***************************************************************************)
(* One file pair going through lines 189-193 of file_loader.               *)
(*   cmic_in, sl_in   the tables as read from the two files                *)
(*   cmic_df, sl_df   the record sets the normalizers returned             *)
(*   sl_tagged        the SL frame after lines 93-95 (tag and date added)  *)
(*   sl_dedup         the SL frame after line 96 (duplicates dropped)      *)
(*   out_df           the comparison table                                 *)
(*   out_cols         the column names of the comparison table, in order   *)
(*   pc               "start", "cmic_done", "sl_done", "compared", or      *)
(*                    "raised" once a statement raised                     *)
(***************************************************************************)
VARIABLES pc, cmic_in, sl_in, cmic_df, sl_tagged, sl_dedup, sl_df, out_df, out_cols

(***************************************************************************)
(* The batch of file_loader (lines 171-196) around the pair.               *)
(*   cmic_files, sl_files   the two lists glob returned                    *)
(*   file_no                the position of the loop in cmic_files         *)
(*   reports                the to_csv calls made so far, in order: the    *)
(*                          path written and the CMIC file it was made of  *)
(* pc is "idle" at the head of the loop and "done" after it.               *)
(***************************************************************************)
VARIABLES cmic_files, sl_files, file_no, reports
loop_vars == <<cmic_files, sl_files, file_no, reports>>

(***************************************************************************)
(* get_AO_file (src/SQL_AO_DB_Connect_workspace.py, lines 89-101).         *)
(*   sheet_names   XL_AO.sheet_names, the sheets of the workbook           *)
(*   sheetnames    the list the loop of lines 94-96 iterates and edits     *)
(*   name_it       the position of the list iterator: how many items the   *)
(*                 for statement has handed out                            *)
(* pc is "ao_loop" inside the loop and "ao_returned" after it.             *)
(***************************************************************************)
VARIABLES sheet_names, sheetnames, name_it
ao_vars == <<sheet_names, sheetnames, name_it>>

(***************************************************************************)
(* upload_sched and save_db (src/SQL_DB_Connect_workspace.py, 250-310).    *)
(*   up_df, up_dbdate   the arguments of upload_sched                      *)
(*   sql_tables         the tables to_sql wrote, as <<name, frame>>        *)
(*   save_calls         the calls of save_db, as <<frame, date>>           *)
(*   local_files        the files to_csv wrote, as <<name, frame>>         *)
(*   length_lines       how often "Process length" was printed             *)
(* pc runs through "up_start", "up_try", "up_engine", "up_except",         *)
(* "save_dialog", "save_write", "up_after", "up_returned"; it is           *)
(* "up_raised" when an exception left upload_sched.                        *)
(***************************************************************************)
VARIABLES up_df, up_dbdate, sql_tables, save_calls, local_files, length_lines
up_vars == <<up_df, up_dbdate, sql_tables, save_calls, local_files, length_lines>>
script_vars == <<ao_vars, up_vars>>

vars == <<pc, cmic_in, sl_in, cmic_df, sl_tagged, sl_dedup, sl_df, out_df, out_cols, loop_vars,
          script_vars>>

CleanCmic ==
    /\ pc = "start"
    /\ IF clean_cmic_raises(cmic_in)
       THEN pc' = "raised" /\ UNCHANGED cmic_df
       ELSE pc' = "cmic_done" /\ cmic_df' = clean_cmic(cmic_in)
    /\ UNCHANGED <<cmic_in, sl_in, sl_tagged, sl_dedup, sl_df, out_df, out_cols, loop_vars>>
    /\ UNCHANGED script_vars

(* DataFrame.apply(axis=1) on a frame without rows (line 93, or line 113 when *)
(* the filter kept nothing) hands back a frame instead of a column; whether   *)
(* the assignment of it then raises depends on the pandas build.              *)
EmptyApplyRaises == {TRUE, FALSE}

CleanSl ==
    /\ pc = "cmic_done"
    /\ IF SlDateRaises(sl_in)
       THEN pc' = "raised" /\ UNCHANGED <<sl_tagged, sl_dedup, sl_df>>
       ELSE LET tagged == SlTagged(sl_in)
                dedup == drop_duplicates(tagged)
                retained == RowFilter(dedup)
            IN  /\ sl_tagged' = tagged
                /\ sl_dedup' = dedup
                /\ \E raises \in IF retained = << >> THEN EmptyApplyRaises
                                  ELSE {SlLaterRaises(retained)} :
                      IF raises
                      THEN pc' = "raised" /\ UNCHANGED sl_df
                      ELSE pc' = "sl_done" /\ sl_df' = SlRowsOf(retained)
    /\ UNCHANGED <<cmic_in, sl_in, cmic_df, out_df, out_cols, loop_vars>>
    /\ UNCHANGED script_vars

(* Variant: the columns outside cols_to_keep are dropped from cmic in place. *)
CompareDfsInPlace ==
    /\ pc = "sl_done"
    /\ out_df' = compare_dfs(cmic_df, sl_df)
    /\ out_cols' = reindexed_columns
    /\ cmic_df' = [i \in 1..Len(cmic_df) |-> KeepCols(cmic_df[i])]
    /\ pc' = "compared"
    /\ UNCHANGED <<cmic_in, sl_in, sl_tagged, sl_dedup, sl_df, loop_vars>>
    /\ UNCHANGED script_vars

CompareDfs ==
    /\ pc = "sl_done"
    /\ out_df' = compare_dfs(cmic_df, sl_df)
    /\ out_cols' = reindexed_columns
    /\ pc' = "compared"
    /\ UNCHANGED <<cmic_in, sl_in, cmic_df, sl_tagged, sl_dedup, sl_df, loop_vars>>
    /\ UNCHANGED script_vars

Next == CleanCmic \/ CleanSl \/ CompareDfs

(***************************************************************************)
(* Input tables.  Each row set varies the cells the operations branch on   *)
(* around one well-formed row of either layout.                            *)
(***************************************************************************)
MaxCmicRows == 2
MaxSlRows == 2

Date1 == Txt(<<"1", "/", "2", "/", "2", "0", "1", "9">>)
Date1Padded == Txt(<<"0", "1", "/", "0", "2", "/", "2", "0", "1", "9">>)
Date2 == Txt(<<"3", "/", "4", "/", "2", "0", "1", "9">>)
NoDate == Txt(<<"n", "/", "a">>)

CmicBase ==
    [job_no |-> Num(100), job_name |-> Str("Bridge"), subcontract_no |-> Str("S5"),
     vendor_no |-> Num(77), vendor_name |-> Txt(<<"A", "c", "m", "e">>),
     item_no |-> Num(20), item_name |-> Txt(<<"P", "i", "p", "e", " ", "9", "-", " ", "x">>),
     category |-> Num(300), phase_no |-> Str("0010000"), job_cost_no |-> Num(9),
     co_code |-> Num(0), co_date |-> Null, qty |-> Num(10), qty_type |-> Str("EA"),
     dollar_amount |-> Num(1500), cont_total |-> Num(9000), vendor_total |-> Num(9000)]

Text26 == Txt(<<"J", "o", "b", " ", "C", "o", "s", "t", " ", "L", "e", "d", "g", "e", "r",
      " ", ":", " ", "1", "0", "0", "-", " ", "B", "r", "i", "d", "g", "e">>)
Text20 == Txt(<<"S", "u", "b", "c", "o", "n", "t", "r", "a", "c", "t", " ", "I", "d", " ",
      ":", " ", "S", "5", " ", " ", "V", "e", "n", "d", "o", "r", ":", " ",
      "N", "o", " ", "0", " ", "7", "7", " ", " ", "A", "c", "m", "e">>)
Text20Short == Txt(<<"S", "u", "b", "c", "o", "n", "t", "r", "a", "c", "t", " ", "S", "5">>)
Item20 == Txt(<<"I", "t", "e", "m", ":", " ", "2", "0">>)
Item22 == Txt(<<"I", "t", "e", "m", ":", " ", "2", "2">>)
Text42 == Txt(<<"P", "i", "p", "e", " ", "9", "-", " ", "x", " ", " ", "P", "h", "a", "s",
      "e", ":", " ", "0", "0", "1", "0", "0", "0", "0", ".", " ", " ", "C",
      "a", "t", ":", " ", "3">>)
Text42b == Txt(<<"P", "i", "p", "e", " ", "9", "-", " ", "y", " ", " ", "P", "h", "a", "s",
      "e", ":", " ", "0", "0", "1", "0", "0", "0", "0", ".", " ", " ", "C",
      "a", "t", ":", " ", "3">>)
Amt1500 == Txt(<<"1", ",", "5", "0", "0">>)
Amt1500Plain == Txt(<<"1", "5", "0", "0", ".", "0", "0">>)
Amt200 == Txt(<<"2", "0", "0">>)
Amt9000 == Txt(<<"9", ",", "0", "0", "0">>)

SlBase ==
    [c20 |-> Text20, c26 |-> Text26, c41 |-> Item20, c42 |-> Text42,
     c47 |-> Amt1500, c48 |-> Amt1500, c56 |-> Txt(<<"E", "A">>), c57 |-> Txt(<<"1", "0">>),
     c102 |-> Null, c105 |-> Txt(<<"L", "F">>), c106 |-> Txt(<<"4">>), c108 |-> Amt200,
     c128 |-> Amt9000, c129 |-> Amt9000]
SlJunk == [f \in DOMAIN SlBase |-> Null]

(* The rows of the pipeline specification: matched, unmatched and repeated keys. *)
CmicRows ==
    {CmicBase,
     [CmicBase EXCEPT !.co_date = Date1],
     [CmicBase EXCEPT !.co_code = Num(1), !.co_date = Date1],
     [CmicBase EXCEPT !.co_code = Num(2), !.co_date = Date2, !.dollar_amount = Null],
     [CmicBase EXCEPT !.item_no = Num(21), !.qty_type = Null]}
SlRows ==
    {SlBase,
     [SlBase EXCEPT !.c102 = Date2],
     [SlBase EXCEPT !.c48 = Amt200, !.c102 = Date1Padded],
     [SlBase EXCEPT !.c48 = Amt200, !.c102 = Date2, !.c105 = Null, !.c108 = Null],
     [SlBase EXCEPT !.c41 = Item22]}

(* The rows of the CMIC specification. *)
CmicRowsWide ==
    {[CmicBase EXCEPT !.co_code = c, !.co_date = d] :
        c \in {Num(0), Num(1), Hun(50), Txt(<<"0">>), Txt(<<"X">>), Null}, d \in {Null, Date1}}
    \cup {[CmicBase EXCEPT !.job_no = Null],
          [CmicBase EXCEPT !.item_no = Null],
          [CmicBase EXCEPT !.co_date = NoDate],
          [CmicBase EXCEPT !.phase_no = Str("001000"), !.category = Num(350)],
          [CmicBase EXCEPT !.phase_no = Null, !.item_name = Null],
          [CmicBase EXCEPT !.subcontract_no = Str("A_1"), !.item_no = Num(2), !.phase_no = Str("X")],
          [CmicBase EXCEPT !.subcontract_no = Str("A"), !.item_no = Num(1), !.phase_no = Str("2_X")],
          [CmicBase EXCEPT !.subcontract_no = Null],
          [CmicBase EXCEPT !.job_no = Hun(10050), !.category = Num(299), !.phase_no = Str("00100")]}

(* The rows of the SL specification. *)
SlRowsWide ==
    {[SlBase EXCEPT !.c47 = a[1], !.c48 = a[2], !.c102 = d] :
        a \in {<<Amt1500, Amt1500>>, <<Amt1500, Amt1500Plain>>, <<Amt1500, Null>>, <<Null, Null>>},
        d \in {Null, Date1, Date1Padded}}
    \cup {SlJunk,
          [SlBase EXCEPT !.c42 = Text42b],
          [SlBase EXCEPT !.c102 = NoDate],
          [SlBase EXCEPT !.c20 = Text20Short],
          [SlBase EXCEPT !.c41 = Null],
          [SlBase EXCEPT !.c57 = Txt(<<"x">>)],
          [SlBase EXCEPT !.c48 = Amt200, !.c102 = Date2, !.c105 = Null, !.c106 = Null, !.c108 = Null]}

(* The two database scripts are not running. *)
NoScript ==
    /\ sheet_names = << >>
    /\ sheetnames = << >>
    /\ name_it = 0
    /\ up_df = << >>
    /\ up_dbdate = ""
    /\ sql_tables = {}
    /\ save_calls = << >>
    /\ local_files = {}
    /\ length_lines = 0

(* A table: its rows with the index labels 1, 2, ... that pandas gives them. *)
WithIdx(t) ==
    [i \in 1..Len(t) |-> [f \in (DOMAIN t[i]) \cup {"idx"} |-> IF f = "idx" THEN i ELSE t[i][f]]]
Tables(rows, n) == {WithIdx(t) : t \in UNION {[1..k -> rows] : k \in 0..n}}

InitWith(cmicTables, slTables) ==
    /\ pc = "start"
    /\ cmic_in \in cmicTables
    /\ sl_in \in slTables
    /\ cmic_df = << >>
    /\ sl_tagged = << >>
    /\ sl_dedup = << >>
    /\ sl_df = << >>
    /\ out_df = << >>
    /\ out_cols = << >>
    /\ cmic_files = << >>
    /\ sl_files = << >>
    /\ file_no = 0
    /\ reports = << >>
    /\ NoScript

Init == InitWith(Tables(CmicRows, MaxCmicRows), Tables(SlRows, MaxSlRows))
InitCmic == InitWith(Tables(CmicRowsWide, MaxCmicRows), {WithIdx(<<SlBase>>)})
InitSl == InitWith({WithIdx(<<CmicBase>>)}, Tables(SlRowsWide, MaxSlRows))

Spec == Init /\ [][Next]_vars
SpecCmic == InitCmic /\ [][Next]_vars
SpecSl == InitSl /\ [][Next]_vars

(***************************************************************************)
(* file_loader (lines 171-196): the batch over the CMIC files of one       *)
(* directory.  A file name is the sequence of its characters.              *)
(***************************************************************************)
(* str.split(): the pieces between runs of white space. *)
RECURSIVE split_ws(_)
split_ws(cs) ==
    LET s == Strip(cs)
    IN  IF s = << >> THEN << >>
        ELSE IF \E i \in 1..Len(s) : s[i] = " "
        THEN LET n == CHOOSE i \in 1..Len(s) : s[i] = " " /\ \A j \in 1..(i - 1) : s[j] # " "
             IN  <<SubSeq(s, 1, n - 1)>> \o split_ws(SubSeq(s, n, Len(s)))
        ELSE <<s>>

(* sub in s *)
Contains(s, sub) == sub = << >> \/ \E i \in 1..Len(s) : OccursAt(s, sub, i)

(* fnmatch of prefix + '*.*' on the names of the directory *)
glob_match(name, prefix) ==
    /\ Prefix(name, Len(prefix)) = prefix
    /\ \E i \in (Len(prefix) + 1)..Len(name) : name[i] = "."
glob(loc, prefix, listing) == {loc \o name : name \in {n \in listing : glob_match(n, prefix)}}

(* Line 176 *)
job_no_of(cmic_file) == Item(Split(Item(split_ws(cmic_file), -1), <<".">>), 0)

(* Line 179: the SL files whose name contains the job number. *)
sl_matches(files, job_no) == SelectSeq(files, LAMBDA f : Contains(f, job_no))

(* Line 196: loc + 'comparison_' + job_no + '.csv' *)
report_path(loc, job_no) == loc \o <<"c", "o", "m", "p", "a", "r", "i", "s", "o", "n", "_">> \o job_no \o <<".", "c", "s", "v">>

Loc == <<"d", "/">>
CmicPrefix == <<"c", "m", "i", "c">>
SlPrefix == <<"s", "l">>
Cmic100Txt == <<"c", "m", "i", "c", " ", "1", "0", "0", ".", "t", "x", "t">>
Cmic100Csv == <<"c", "m", "i", "c", " ", "1", "0", "0", ".", "c", "s", "v">>
Cmic200Txt == <<"c", "m", "i", "c", " ", "2", "0", "0", ".", "t", "x", "t">>
Sl100Csv == <<"s", "l", " ", "1", "0", "0", ".", "c", "s", "v">>
Sl200Csv == <<"s", "l", " ", "2", "0", "0", ".", "c", "s", "v">>
OldReport == <<"c", "o", "m", "p", "a", "r", "i", "s", "o", "n", "_", "1", "0", "0", ".", "c", "s", "v">>
FileNames == {Cmic100Txt, Cmic100Csv, Cmic200Txt, Sl100Csv, Sl200Csv, OldReport}
MaxFiles == 2
Listings ==
    {l \in SUBSET FileNames : Cardinality({n \in l : glob_match(n, CmicPrefix)}) <= MaxFiles}

(* What read_table / read_csv find in a file of the batch. *)
CmicContents == {WithIdx(<<CmicBase>>), WithIdx(<<[CmicBase EXCEPT !.item_no = Null]>>)}
SlContents == {WithIdx(<<SlBase>>), WithIdx(<<[SlBase EXCEPT !.c102 = NoDate]>>)}

ThisFile == cmic_files[file_no]

(* Lines 175-183: the next CMIC file, its SL file, and the two reads.  The  *)
(* [0] of line 179 raises IndexError when no SL file matches; a read raises *)
(* when the file cannot be parsed.  Lines 182-183 rebind cmic_df and sl_df. *)
LoadPair ==
    /\ pc = "idle"
    /\ file_no \in 1..Len(cmic_files)
    /\ IF sl_matches(sl_files, job_no_of(ThisFile)) = << >>
       THEN /\ pc' = "raised"
            /\ UNCHANGED <<cmic_in, sl_in, cmic_df, sl_tagged, sl_dedup, sl_df>>
       ELSE \E readable \in BOOLEAN, c \in CmicContents, s \in SlContents :
                 IF readable
                 THEN /\ pc' = "start"
                      /\ cmic_in' = c
                      /\ sl_in' = s
                      /\ cmic_df' = << >>
                      /\ sl_tagged' = << >>
                      /\ sl_dedup' = << >>
                      /\ sl_df' = << >>
                 ELSE /\ pc' = "raised"
                      /\ UNCHANGED <<cmic_in, sl_in, cmic_df, sl_tagged, sl_dedup, sl_df>>
    /\ UNCHANGED <<out_df, out_cols, loop_vars>>
    /\ UNCHANGED script_vars

(* Line 196, and the step of the loop to the next CMIC file. *)
SaveReport ==
    /\ pc = "compared"
    /\ file_no \in 1..Len(cmic_files)
    /\ reports' = Append(reports, [path |-> report_path(Loc, job_no_of(ThisFile)),
                                   cmic_file |-> ThisFile])
    /\ file_no' = file_no + 1
    /\ pc' = "idle"
    /\ UNCHANGED <<cmic_in, sl_in, cmic_df, sl_tagged, sl_dedup, sl_df, out_df, out_cols,
                   cmic_files, sl_files>>
    /\ UNCHANGED script_vars

(* The loop ends after the last CMIC file. *)
Finish ==
    /\ pc = "idle"
    /\ file_no = Len(cmic_files) + 1
    /\ pc' = "done"
    /\ UNCHANGED <<cmic_in, sl_in, cmic_df, sl_tagged, sl_dedup, sl_df, out_df, out_cols,
                   loop_vars>>
    /\ UNCHANGED script_vars

(* Variant: a pair that raised is given up and the loop goes on. *)
SkipRaised ==
    /\ pc = "raised"
    /\ file_no \in 1..Len(cmic_files)
    /\ file_no' = file_no + 1
    /\ pc' = "idle"
    /\ UNCHANGED <<cmic_in, sl_in, cmic_df, sl_tagged, sl_dedup, sl_df, out_df, out_cols,
                   cmic_files, sl_files, reports>>
    /\ UNCHANGED script_vars
NextLoaderIsolating ==
    LoadPair \/ CleanCmic \/ CleanSl \/ CompareDfs \/ SaveReport \/ Finish \/ SkipRaised

NextLoader == LoadPair \/ CleanCmic \/ CleanSl \/ CompareDfs \/ SaveReport \/ Finish

(* glob gives the names in the order of the directory, which is arbitrary. *)
Orders(files) == {f \in [1..Cardinality(files) -> files] : \A i, j \in DOMAIN f : f[i] = f[j] => i = j}

InitLoader ==
    /\ pc = "idle"
    /\ \E listing \in Listings :
          /\ cmic_files \in Orders(glob(Loc, CmicPrefix, listing))
          /\ sl_files \in Orders(glob(Loc, SlPrefix, listing))
    /\ file_no = 1
    /\ reports = << >>
    /\ cmic_in = << >>
    /\ sl_in = << >>
    /\ cmic_df = << >>
    /\ sl_tagged = << >>
    /\ sl_dedup = << >>
    /\ sl_df = << >>
    /\ out_df = << >>
    /\ out_cols = << >>
    /\ NoScript

SpecLoader == InitLoader /\ [][NextLoader]_vars

(***************************************************************************)
(* get_AO_file, lines 89-101: the sheets of the workbook without the       *)
(* hidden ones.  The for statement of line 94 walks the list by position   *)
(* while line 96 removes items from the same list.                         *)
(***************************************************************************)
batch_vars == <<cmic_in, sl_in, cmic_df, sl_tagged, sl_dedup, sl_df, out_df, out_cols, loop_vars>>
NoBatch ==
    /\ cmic_in = << >>
    /\ sl_in = << >>
    /\ cmic_df = << >>
    /\ sl_tagged = << >>
    /\ sl_dedup = << >>
    /\ sl_df = << >>
    /\ out_df = << >>
    /\ out_cols = << >>
    /\ cmic_files = << >>
    /\ sl_files = << >>
    /\ file_no = 0
    /\ reports = << >>

Hidden == <<"h", "i", "d", "d", "e", "n">>
(* 'hidden' in name *)
IsHiddenName(name) == Contains(name, Hidden)

(* list.remove(x): the first item equal to x is taken out. *)
list_remove(list, x) ==
    LET i == CHOOSE k \in 1..Len(list) : list[k] = x /\ \A j \in 1..(k - 1) : list[j] # x
    IN  SubSeq(list, 1, i - 1) \o SubSeq(list, i + 1, Len(list))

(* Lines 94-96, one turn of the loop: the iterator hands out the item at   *)
(* its position and moves on; a hidden name is removed from the list.      *)
NextSheet ==
    /\ pc = "ao_loop"
    /\ name_it < Len(sheetnames)
    /\ LET name == sheetnames[name_it + 1]
       IN  sheetnames' = IF IsHiddenName(name) THEN list_remove(sheetnames, name)
                         ELSE sheetnames
    /\ name_it' = name_it + 1
    /\ UNCHANGED <<pc, sheet_names, up_vars, batch_vars>>

(* The iterator is past the end of the list: the loop is over (line 101). *)
SheetsDone ==
    /\ pc = "ao_loop"
    /\ name_it >= Len(sheetnames)
    /\ pc' = "ao_returned"
    /\ UNCHANGED <<ao_vars, up_vars, batch_vars>>

NextSheets == NextSheet \/ SheetsDone

(* Sheet names of a workbook are distinct. *)
SheetData == <<"D", "a", "t", "a">>
SheetNotes == <<"N", "o", "t", "e", "s">>
SheetHidden1 == <<"h", "i", "d", "d", "e", "n", "1">>
SheetHidden2 == <<"h", "i", "d", "d", "e", "n", "2">>
SheetXHidden == <<"x", " ", "h", "i", "d", "d", "e", "n">>
SheetCapital == <<"H", "i", "d", "d", "e", "n">>
SheetNames == {SheetData, SheetNotes, SheetHidden1, SheetHidden2, SheetXHidden, SheetCapital}
MaxSheets == 3
Workbooks ==
    {w \in UNION {[1..k -> SheetNames] : k \in 0..MaxSheets} :
        \A i, j \in DOMAIN w : w[i] = w[j] => i = j}

InitSheets ==
    /\ pc = "ao_loop"
    /\ sheet_names \in Workbooks
    /\ sheetnames = sheet_names
    /\ name_it = 0
    /\ up_df = << >>
    /\ up_dbdate = ""
    /\ sql_tables = {}
    /\ save_calls = << >>
    /\ local_files = {}
    /\ length_lines = 0
    /\ NoBatch

SpecSheets == InitSheets /\ [][NextSheets]_vars

(***************************************************************************)
(* upload_sched and save_db (src/SQL_DB_Connect_workspace.py, 250-310).    *)
(* Whether the server, the folder dialog and the disk do their part is not *)
(* in the program's hands: each is an outcome chosen at the step.          *)
(***************************************************************************)
(* Line 293 *)
name_of_db_in_SQL(dbdate) == "df_DB1000_" \o dbdate \o "_DELETEME"
(* Line 256 *)
name_of_db(dbdate) == "df_DB1000_" \o dbdate \o ".csv"

(* What askdirectory returns: the folder chosen, or "" when the dialog is *)
(* cancelled; os.chdir("") raises FileNotFoundError.                      *)
Folders == {"C:/out", ""}

(* Lines 282-287: the clock is read and the try block entered. *)
UploadStart ==
    /\ pc = "up_start"
    /\ pc' = "up_try"
    /\ UNCHANGED <<up_vars, ao_vars, batch_vars>>

(* Line 290: create_engine returns an engine or raises. *)
CreateEngine ==
    /\ pc = "up_try"
    /\ \E ok \in BOOLEAN : pc' = IF ok THEN "up_engine" ELSE "up_except"
    /\ UNCHANGED <<up_vars, ao_vars, batch_vars>>

(* Lines 293-298: to_sql writes the table or raises. *)
ToSql ==
    /\ pc = "up_engine"
    /\ \E ok \in BOOLEAN :
          IF ok
          THEN /\ sql_tables' = sql_tables \cup {<<name_of_db_in_SQL(up_dbdate), up_df>>}
               /\ pc' = "up_after"
          ELSE /\ pc' = "up_except"
               /\ UNCHANGED sql_tables
    /\ UNCHANGED <<up_df, up_dbdate, save_calls, local_files, length_lines, ao_vars, batch_vars>>

(* Lines 300-306 and 256-257: the handler prints and calls save_db. *)
ExceptSaveDb ==
    /\ pc = "up_except"
    /\ save_calls' = Append(save_calls, <<up_df, up_dbdate>>)
    /\ pc' = "save_dialog"
    /\ UNCHANGED <<up_df, up_dbdate, sql_tables, local_files, length_lines, ao_vars, batch_vars>>

(* Lines 259-261 of save_db: the folder dialog and os.chdir.  An exception *)
(* raised here is inside the handler of upload_sched, which nothing        *)
(* encloses: it leaves upload_sched.                                       *)
AskDirectory ==
    /\ pc = "save_dialog"
    /\ \E folder \in Folders : pc' = IF folder = "" THEN "up_raised" ELSE "save_write"
    /\ UNCHANGED <<up_vars, ao_vars, batch_vars>>

(* Lines 263-264 of save_db: to_csv writes the file or raises. *)
ToCsv ==
    /\ pc = "save_write"
    /\ \E ok \in BOOLEAN :
          IF ok
          THEN /\ local_files' = local_files \cup {<<name_of_db(save_calls[Len(save_calls)][2]),
                                                     save_calls[Len(save_calls)][1]>>}
               /\ pc' = "up_after"
          ELSE /\ pc' = "up_raised"
               /\ UNCHANGED local_files
    /\ UNCHANGED <<up_df, up_dbdate, sql_tables, save_calls, length_lines, ao_vars, batch_vars>>

(* Lines 309-310 *)
PrintLength ==
    /\ pc = "up_after"
    /\ length_lines' = length_lines + 1
    /\ pc' = "up_returned"
    /\ UNCHANGED <<up_df, up_dbdate, sql_tables, save_calls, local_files, ao_vars, batch_vars>>

NextUpload ==
    UploadStart \/ CreateEngine \/ ToSql \/ ExceptSaveDb \/ AskDirectory \/ ToCsv \/ PrintLength

(* The cleaned schedule and the date taken from the file name. *)
SchedRows == {[order |-> Str("T100"), start |-> Date1], [order |-> Str("T200"), start |-> Null]}
MaxSchedRows == 2
DbDates == {"08012018", "09042018"}

InitUpload ==
    /\ pc = "up_start"
    /\ up_df \in Tables(SchedRows, MaxSchedRows)
    /\ up_dbdate \in DbDates
    /\ sql_tables = {}
    /\ save_calls = << >>
    /\ local_files = {}
    /\ length_lines = 0
    /\ sheet_names = << >>
    /\ sheetnames = << >>
    /\ name_it = 0
    /\ NoBatch

SpecUpload == InitUpload /\ [][NextUpload]_vars

(***************************************************************************)
(* Properties.                                                             *)
(***************************************************************************)
IdsOf(df) == {df[i].ID : i \in 1..Len(df)}
RowsWithId(df, id) == {i \in 1..Len(df) : df[i].ID = id}
Compared == pc = "compared"
SlCleaned == pc \in {"sl_done", "compared"}
CmicCleaned == pc \in {"cmic_done", "sl_done", "compared"}

(* C1: every ID of either normalized record set is the ID of exactly one row *)
(* of the comparison table, and every row of the comparison table carries an *)
(* ID of one of the two record sets.                                         *)
C1_OuterJoinOnce ==
    Compared =>
        /\ \A id \in IdsOf(cmic_df) \cup IdsOf(sl_df) : Cardinality(RowsWithId(out_df, id)) = 1
        /\ IdsOf(out_df) \subseteq IdsOf(cmic_df) \cup IdsOf(sl_df)

(* C2: no two rows of the record set a normalizer returned carry the same ID. *)
NoRepeatedId(df) == \A i, j \in 1..Len(df) : df[i].ID = df[j].ID => i = j
C2_IdUnique ==
    /\ CmicCleaned => NoRepeatedId(cmic_df)
    /\ SlCleaned => NoRepeatedId(sl_df)

(* C3: two normalized records have the same ID exactly when they agree on    *)
(* job_no, subcontract_no, item_no, phase_no, category and cont_or_co (read  *)
(* on the records whose six fields are all present).                         *)
KeyTuple(r) == [k \in 1..Len(cols_to_combine) |-> r[cols_to_combine[k]]]
KeyPresent(r) == \A k \in 1..Len(cols_to_combine) : ~IsNull(r[cols_to_combine[k]])
C3_IdInjective ==
    CmicCleaned =>
        \A i, j \in 1..Len(cmic_df) :
            KeyPresent(cmic_df[i]) /\ KeyPresent(cmic_df[j])
                => (KeyTuple(cmic_df[i]) = KeyTuple(cmic_df[j]) <=> cmic_df[i].ID = cmic_df[j].ID)

(* C4 as claimed: an SL row is tagged "Contract" exactly when columns 47 and *)
(* 48 hold the same value, two missing values counting as the same value.    *)
Contract == Str("Contract")
CO == Str("CO")
IsTag(c) == c \in {Contract, CO}
C4_ContractIffEqualOrBothNull ==
    \A i \in 1..Len(sl_tagged) :
        /\ IsTag(sl_tagged[i].cont_or_co)
        /\ sl_tagged[i].cont_or_co = Contract <=> sl_tagged[i].c47 = sl_tagged[i].c48

(* C4 amended: an SL row is tagged "Contract" exactly when columns 47 and 48 *)
(* both hold a value and the two values are the same string; every other row *)
(* is tagged "CO", a row with both columns missing included.                 *)
C4_ContractIffEqualPresent ==
    \A i \in 1..Len(sl_tagged) :
        /\ IsTag(sl_tagged[i].cont_or_co)
        /\ sl_tagged[i].cont_or_co = Contract
              <=> /\ ~IsNull(sl_tagged[i].c47)
                  /\ ~IsNull(sl_tagged[i].c48)
                  /\ sl_tagged[i].c47 = sl_tagged[i].c48
C4_Witness ==
    /\ SlCleaned
    /\ \E i \in 1..Len(sl_tagged) :
          IsNull(sl_tagged[i].c47) /\ IsNull(sl_tagged[i].c48) /\ sl_tagged[i].cont_or_co = CO
    /\ \E i \in 1..Len(sl_tagged) : sl_tagged[i].cont_or_co = Contract

(* C5: a kept CMIC row is "Contract" when its numeric co_code is 0 and "CO"  *)
(* when its co_code is any other number or missing; a co_code text that is   *)
(* no number has become a missing value.                                     *)
NotANumber(c) == IsTxt(c) /\ \E k \in 1..Len(c[2]) : ~IsDigit(c[2][k]) /\ c[2][k] # "."
RawOf(df, r) == df[CHOOSE i \in 1..Len(df) : df[i].idx = r.idx]
C5_CmicTag ==
    CmicCleaned =>
        \A i \in 1..Len(cmic_df) :
            LET r == cmic_df[i]
            IN  /\ IsNum(r.co_code) \/ IsNull(r.co_code)
                /\ IsNum(r.co_code) /\ r.co_code[2] = 0 => r.cont_or_co = Contract
                /\ IsNum(r.co_code) /\ r.co_code[2] # 0 => r.cont_or_co = CO
                /\ IsNull(r.co_code) => r.cont_or_co = CO
                /\ NotANumber(RawOf(cmic_in, r).co_code) => IsNull(r.co_code)
C5_Witness ==
    /\ CmicCleaned
    /\ \E i \in 1..Len(cmic_df) :
          NotANumber(RawOf(cmic_in, cmic_df[i]).co_code) /\ cmic_df[i].cont_or_co = CO
    /\ \E i \in 1..Len(cmic_df) : cmic_df[i].co_code = Num(0) /\ cmic_df[i].cont_or_co = Contract

(* C6: in a comparison row whose two cont_or_co values are both "Contract",  *)
(* co_date_zcomparison is true; in any other row it is true exactly when the *)
(* two co_date values are both present and equal.                            *)
BothContract(row) == row["cont_or_co_cmic"] = Contract /\ row["cont_or_co_sl"] = Contract
PresentAndEqual(a, b) == ~IsNull(a) /\ ~IsNull(b) /\ a = b
C6_ContractDateForced ==
    Compared =>
        \A i \in 1..Len(out_df) :
            LET row == out_df[i]
            IN  row["co_date_zcomparison"] =
                    Bool(BothContract(row) \/ PresentAndEqual(row["co_date_cmic"], row["co_date_sl"]))
C6_Witness ==
    /\ Compared
    /\ \E i \in 1..Len(out_df) :
          /\ BothContract(out_df[i])
          /\ ~IsNull(out_df[i]["co_date_cmic"])
          /\ ~IsNull(out_df[i]["co_date_sl"])
          /\ out_df[i]["co_date_cmic"] # out_df[i]["co_date_sl"]
    /\ \E i \in 1..Len(out_df) : BothContract(out_df[i]) /\ IsNull(out_df[i]["co_date_sl"])

(* C7: for every compared field of every comparison row, co_date of a        *)
(* both-Contract row aside, the _zcomparison flag is true exactly when the   *)
(* _cmic and the _sl value are both present and equal; it is false when both *)
(* are missing.                                                              *)
C7_FlagIsEquality ==
    Compared =>
        \A i \in 1..Len(out_df) : \A k \in 1..Len(cols_to_compare) :
            LET row == out_df[i]
                f == cols_to_compare[k]
            IN  ~(f = "co_date" /\ BothContract(row))
                    => row[f \o "_zcomparison"] =
                           Bool(PresentAndEqual(row[f \o "_cmic"], row[f \o "_sl"]))
C7_Witness ==
    /\ Compared
    /\ \E i \in 1..Len(out_df) :
          /\ ~IsNull(out_df[i]["job_no_cmic"]) /\ ~IsNull(out_df[i]["job_no_sl"])
          /\ IsNull(out_df[i]["dollar_amount_cmic"]) /\ IsNull(out_df[i]["dollar_amount_sl"])
          /\ out_df[i]["dollar_amount_zcomparison"] = Bool(FALSE)
          /\ out_df[i]["qty_zcomparison"] = Bool(FALSE)
          /\ out_df[i]["job_no_zcomparison"] = Bool(TRUE)

(* C8: a comparison row whose ID only the CMIC set has is missing every _sl  *)
(* field, and one whose ID only the SL set has is missing every _cmic field. *)
C8_UnmatchedSideNull ==
    Compared =>
        \A i \in 1..Len(out_df) : \A f \in Range(cols_to_keep) \ {"ID"} :
            /\ out_df[i].ID \notin IdsOf(sl_df) => IsNull(out_df[i][f \o "_sl"])
            /\ out_df[i].ID \notin IdsOf(cmic_df) => IsNull(out_df[i][f \o "_cmic"])
C8_Witness ==
    /\ Compared
    /\ \E i \in 1..Len(out_df) :
          out_df[i].ID \in IdsOf(cmic_df) \ IdsOf(sl_df) /\ ~IsNull(out_df[i]["job_no_cmic"])
    /\ \E i \in 1..Len(out_df) :
          out_df[i].ID \in IdsOf(sl_df) \ IdsOf(cmic_df) /\ ~IsNull(out_df[i]["job_no_sl"])

(* C9: the record set clean_sl returns holds exactly the de-duplicated rows  *)
(* that are "Contract" or have a co_date, each once, in their original order. *)
IdxSeq(df) == [i \in 1..Len(df) |-> df[i].idx]
C9_FilterExact ==
    SlCleaned =>
        IdxSeq(sl_df) =
            IdxSeq(SelectSeq(sl_dedup, LAMBDA r : r.cont_or_co = Contract \/ ~IsNull(r.co_date)))

(* C10: a "CO" row of the SL record set has its qty, qty_type and            *)
(* dollar_amount from columns 106, 105 and 108, a "Contract" row from        *)
(* columns 57, 56 and 47.                                                    *)
QtyOf(c) == IF IsNull(c) THEN Num(0) ELSE ParseFloat(RemoveCommas(c[2]))
QtyTypeOf(c) == IF IsNull(c) THEN Str("LS") ELSE Str(Join(c[2]))
AmountOf(c) == IF IsNull(c) THEN Null ELSE ParseFloat(RemoveCommas(c[2]))
C10_ColumnSetByTag ==
    SlCleaned =>
        \A i \in 1..Len(sl_df) :
            LET r == sl_df[i]
            IN  /\ IsTag(r.cont_or_co)
                /\ r.cont_or_co = CO =>
                      /\ r.qty = QtyOf(r.c106)
                      /\ r.qty_type = QtyTypeOf(r.c105)
                      /\ r.dollar_amount = AmountOf(r.c108)
                /\ r.cont_or_co = Contract =>
                      /\ r.qty = QtyOf(r.c57)
                      /\ r.qty_type = QtyTypeOf(r.c56)
                      /\ r.dollar_amount = AmountOf(r.c47)
C10_Witness ==
    /\ SlCleaned
    /\ \E i \in 1..Len(sl_df) :
          /\ sl_df[i].cont_or_co = CO
          /\ QtyOf(sl_df[i].c106) # QtyOf(sl_df[i].c57)
          /\ QtyTypeOf(sl_df[i].c105) # QtyTypeOf(sl_df[i].c56)
          /\ AmountOf(sl_df[i].c108) # AmountOf(sl_df[i].c47)
    /\ \E i \in 1..Len(sl_df) :
          /\ sl_df[i].cont_or_co = Contract
          /\ QtyOf(sl_df[i].c106) # QtyOf(sl_df[i].c57)

(***************************************************************************)
(* C11: clean_cmic returns exactly the input rows whose job_no is not      *)
(* null, in the order of the input.                                        *)
(***************************************************************************)
HasJobNo(r) == ~IsNull(r.job_no)
C11_KeepsRowsWithJobNo ==
    CmicCleaned => IdxSeq(cmic_df) = IdxSeq(SelectSeq(cmic_in, HasJobNo))

C11_Witness ==
    /\ CmicCleaned
    /\ Len(cmic_in) = 2
    /\ IsNull(cmic_in[1].job_no)
    /\ IsNull(cmic_in[2].co_date)
    /\ IdxSeq(cmic_df) = <<2>>

(***************************************************************************)
(* C17: a phase_no of exactly six characters gets "0" appended; a phase_no *)
(* of any other length is left as it is.                                   *)
(***************************************************************************)
PhaseText(c) == IF IsNull(c) THEN "nan" ELSE c[2]
C17_PhasePaddedAtSix ==
    CmicCleaned =>
        \A i \in 1..Len(cmic_df) :
            LET x == PhaseText(RawOf(cmic_in, cmic_df[i]).phase_no)
            IN  /\ Len(x) = 6 => cmic_df[i].phase_no = Str(x \o "0")
                /\ Len(x) # 6 => cmic_df[i].phase_no = Str(x)

C17_Witness ==
    /\ CmicCleaned
    /\ Len(cmic_df) = 2
    /\ RawOf(cmic_in, cmic_df[1]).phase_no = Str("001000")
    /\ cmic_df[1].phase_no = Str("0010000")
    /\ RawOf(cmic_in, cmic_df[2]).phase_no = Str("00100")
    /\ cmic_df[2].phase_no = Str("00100")

(***************************************************************************)
(* C18: category is the decimal string of the integer part of a hundredth  *)
(* of the raw category (300 gives "3"); job_no, vendor_no, item_no and     *)
(* job_cost_no are the decimal strings of the integer parts of their raw   *)
(* values, without a decimal point.                                        *)
(***************************************************************************)
NumericCols == {"job_no", "vendor_no", "item_no", "job_cost_no"}
DigitStrings(n) == {IntToStr(k) : k \in 0..n}
C18_IntegerStrings ==
    CmicCleaned =>
        \A i \in 1..Len(cmic_df) :
            LET raw == RawOf(cmic_in, cmic_df[i])
            IN  /\ raw.category[2] >= 0 =>
                      cmic_df[i].category = Str(IntToStr(raw.category[2] \div 10000))
                /\ \A col \in NumericCols :
                      raw[col][2] >= 0 =>
                          /\ cmic_df[i][col] = Str(IntToStr(raw[col][2] \div 100))
                          /\ cmic_df[i][col][2] \in DigitStrings(raw[col][2] \div 100)

C18_Witness ==
    /\ CmicCleaned
    /\ Len(cmic_df) = 2
    /\ RawOf(cmic_in, cmic_df[1]).category = Num(300)
    /\ cmic_df[1].category = Str("3")
    /\ RawOf(cmic_in, cmic_df[2]).category = Num(299)
    /\ cmic_df[2].category = Str("2")
    /\ RawOf(cmic_in, cmic_df[2]).job_no = Hun(10050)
    /\ cmic_df[2].job_no = Str("100")

(***************************************************************************)
(* C19: the de-duplication keeps, for every distinct combination of        *)
(* column 41, column 42, cont_or_co and co_date, exactly the first input   *)
(* row and drops the later ones; it runs before the row filter, so a later *)
(* duplicate is absent from the result even when it is a Contract row.     *)
(***************************************************************************)
SameKey(a, b) ==
    /\ a.c41 = b.c41
    /\ a.c42 = b.c42
    /\ a.cont_or_co = b.cont_or_co
    /\ a.co_date = b.co_date
FirstOfKey(df, i) == \A j \in 1..(i - 1) : ~SameKey(df[j], df[i])
C19_DedupKeepsFirst ==
    /\ sl_dedup = SelectSeq(sl_tagged, LAMBDA r : FirstOfKey(sl_tagged, r.idx))
    /\ SlCleaned =>
          \A i \in 1..Len(sl_df) : FirstOfKey(sl_tagged, sl_df[i].idx)

C19_Witness ==
    /\ SlCleaned
    /\ Len(sl_tagged) = 2
    /\ SameKey(sl_tagged[1], sl_tagged[2])
    /\ sl_tagged[2].cont_or_co = Contract
    /\ sl_in[1].c102 # sl_in[2].c102
    /\ IdxSeq(sl_dedup) = <<1>>
    /\ IdxSeq(sl_df) = <<1, 1>>

(***************************************************************************)
(* C20: no input row appears more than once in the result of clean_sl,     *)
(* also not a Contract row that has a change-order date.                   *)
(***************************************************************************)
C20_NoRowTwice ==
    SlCleaned =>
        \A i, j \in 1..Len(sl_df) : sl_df[i].idx = sl_df[j].idx => i = j

(***************************************************************************)
(* C15: the columns of the comparison table are in lexicographic order of  *)
(* their names (code point by code point, so "ID" comes first).            *)
(***************************************************************************)
C15_ColumnsSorted ==
    Compared =>
        /\ \A i \in 1..Len(out_df) : DOMAIN out_df[i] = Range(out_cols)
        /\ \A i \in 1..Len(out_cols) : Join(ColChars[out_cols[i]]) = out_cols[i]
        /\ \A i, j \in 1..Len(out_cols) :
              i < j => StrLess(ColChars[out_cols[i]], ColChars[out_cols[j]])

C15_Witness ==
    /\ Compared
    /\ Len(out_df) > 0
    /\ Len(out_cols) = 51
    /\ out_cols[1] = "ID"
    /\ out_cols[2] = "category_cmic"
    /\ out_cols[5] = "co_date_cmic"
    /\ out_cols[8] = "cont_or_co_cmic"
    /\ out_cols[51] = "vendor_total_zcomparison"

(***************************************************************************)
(* C16: compare_dfs only reads its two record sets; both are the same      *)
(* after the call as before it.                                            *)
(***************************************************************************)
C16_InputsUnchanged ==
    [][(pc = "sl_done" /\ pc' = "compared") => (cmic_df' = cmic_df /\ sl_df' = sl_df)]_vars

C16_Witness ==
    /\ Compared
    /\ Len(cmic_df) > 0
    /\ Len(sl_df) > 0
    /\ Len(out_df) > 0
    /\ cmic_df = clean_cmic(cmic_in)
    /\ DOMAIN cmic_df[1] # Range(cols_to_keep)

(***************************************************************************)
(* C12: a CMIC file for which no SL file name contains its job number does *)
(* not end the batch: the run is never stopped at such a file.             *)
(***************************************************************************)
NoMatch(k) == \A i \in 1..Len(sl_files) : ~Contains(sl_files[i], job_no_of(cmic_files[k]))
C12_MissingMatchNotFatal ==
    ~(pc = "raised" /\ file_no \in 1..Len(cmic_files) /\ NoMatch(file_no))

(***************************************************************************)
(* C13: the pairs are processed one after another in the order of the CMIC *)
(* file list; the reports written so far are those of a prefix of that     *)
(* list; when a step of pair k raises, no report is written for pair k or  *)
(* a later one, and the reports written before stay.                       *)
(***************************************************************************)
ReportsOfPrefix ==
    /\ Len(reports) <= Len(cmic_files)
    /\ \A i \in 1..Len(reports) :
          /\ reports[i].cmic_file = cmic_files[i]
          /\ reports[i].path = report_path(Loc, job_no_of(cmic_files[i]))
    /\ Len(reports) = file_no - 1
C13_ReportsArePrefix ==
    /\ []ReportsOfPrefix
    /\ [][/\ Len(reports') >= Len(reports)
           /\ SubSeq(reports', 1, Len(reports)) = reports
           /\ pc = "raised" => reports' = reports]_vars

C13_Witness ==
    /\ pc = "raised"
    /\ Len(cmic_files) = 2
    /\ file_no = 2
    /\ ~NoMatch(2)
    /\ Len(reports) = 1
    /\ reports[1].cmic_file = cmic_files[1]

(***************************************************************************)
(* C14: after a run without error there is exactly one report per CMIC     *)
(* file; no two different CMIC files write to the same path.               *)
(***************************************************************************)
C14_OneReportPerFile ==
    pc = "done" =>
        /\ Len(reports) = Len(cmic_files)
        /\ \A i, j \in 1..Len(reports) :
              reports[i].cmic_file # reports[j].cmic_file => reports[i].path # reports[j].path
        /\ Cardinality({reports[i].path : i \in 1..Len(reports)}) = Len(cmic_files)

(***************************************************************************)
(* C21: the sheet list get_AO_file returns holds no sheet whose name       *)
(* contains "hidden" and holds every other sheet of the workbook, in the   *)
(* order of the workbook.                                                  *)
(***************************************************************************)
NotHiddenName(name) == ~IsHiddenName(name)
C21_HiddenSheetsRemoved ==
    pc = "ao_returned" => sheetnames = SelectSeq(sheet_names, NotHiddenName)

(***************************************************************************)
(* C22: when creating the engine or writing the table raises, save_db is   *)
(* called once with the same frame and date; when the upload succeeds it   *)
(* is not called; either way no error leaves upload_sched and the process  *)
(* length is printed once, after the upload or the fallback.               *)
(***************************************************************************)
Uploaded == sql_tables # {}
C22_FallbackThenLength ==
    /\ pc # "up_raised"
    /\ pc \in {"save_dialog", "save_write"} => save_calls = <<<<up_df, up_dbdate>>>>
    /\ pc \in {"up_after", "up_returned"} =>
          /\ Uploaded => save_calls = << >>
          /\ ~Uploaded => save_calls = <<<<up_df, up_dbdate>>>>
    /\ length_lines = IF pc = "up_returned" THEN 1 ELSE 0

====
